---------------------------- MODULE Spec2Model ----------------------------
(***************************************************************************)
(* A model of s3like (src/s3like/__init__.py): write_to_s3like packs the   *)
(* outputs of a task into one zip archive per category and uploads it;     *)
(* read_from_s3like fetches the archives named by a manifest and unpacks   *)
(* them.                                                                   *)
(*                                                                         *)
(* Representation of Python values:                                        *)
(*   - a str used as a title, a filename or an extension is a sequence of  *)
(*     one-character strings, so that endswith and += are computed;        *)
(*   - a str used only as a key (task_id, category, media_type,            *)
(*     ziplocation) is a TLA+ string;                                      *)
(*   - a data value is [ty, v]: ty is the Python type, v a sequence of     *)
(*     numbers (bytes: the bytes; str: the code points; int: <<n>>;        *)
(*     list: the int elements; dict: key code point, int value, ...);      *)
(*   - an optional value is a sequence of length 0 or 1.                   *)
(* A zip archive is the sequence of its members in the order written; the  *)
(* timestamps zipfile stamps on members are left out.                      *)
(***************************************************************************)
EXTENDS Integers, Sequences, FiniteSets, TLC

\* ------------------------------------------------------------------ bounds

\* The number of calls the callers start in one behaviour.
MaxCalls == 4

\* The task ids of the callers; calls on one task id run one after another,
\* calls on distinct task ids interleave.
TaskIds == {"t1", "t2"}

\* ------------------------------------------------------- Python primitives

Bytes(v) == [ty |-> "bytes", v |-> v]
Str(v) == [ty |-> "str", v |-> v]

\* str.endswith
EndsWith(s, suffix) ==
    /\ Len(suffix) <= Len(s)
    /\ SubSeq(s, Len(s) - Len(suffix) + 1, Len(s)) = suffix

\* str.encode(): UTF-8 of a sequence of code points (up to U+FFFF).
RECURSIVE Utf8Encode(_)
Utf8Encode(cps) ==
    IF cps = <<>> THEN <<>>
    ELSE LET c == Head(cps)
             b == IF c < 128 THEN <<c>>
                  ELSE IF c < 2048
                       THEN <<192 + (c \div 64), 128 + (c % 64)>>
                       ELSE <<224 + (c \div 4096),
                              128 + ((c \div 64) % 64),
                              128 + (c % 64)>>
         IN  b \o Utf8Encode(Tail(cps))

IsCont(b) == b >= 128 /\ b < 192

\* bytes.decode(): <<cps>>, or <<>> where Python raises UnicodeDecodeError.
RECURSIVE Utf8Decode(_)
Utf8Decode(bs) ==
    IF bs = <<>> THEN << <<>> >>
    ELSE LET b == Head(bs)
             n == IF b < 128 THEN 1
                  ELSE IF b >= 194 /\ b < 224 THEN 2
                  ELSE IF b >= 224 /\ b < 240 THEN 3 ELSE 0
         IN  IF n = 0 \/ Len(bs) < n THEN <<>>
             ELSE IF \E i \in 2..n : ~IsCont(bs[i]) THEN <<>>
             ELSE LET c == IF n = 1 THEN b
                           ELSE IF n = 2 THEN (b - 192) * 64 + (bs[2] - 128)
                           ELSE (b - 224) * 4096 + (bs[2] - 128) * 64
                                + (bs[3] - 128)
                      rest == Utf8Decode(SubSeq(bs, n + 1, Len(bs)))
                  IN  IF rest = <<>> \/ (n = 3 /\ c < 2048) THEN <<>>
                      ELSE << <<c>> \o rest[1] >>

\* Decimal digits of a natural number, as code points.
RECURSIVE Digits(_)
Digits(n) ==
    IF n < 10 THEN <<48 + n>> ELSE Digits(n \div 10) \o <<48 + (n % 10)>>

HexDigit(d) == IF d < 10 THEN 48 + d ELSE 87 + d

\* json.dumps of one character of a str (ensure_ascii=True).
JsonChar(c) ==
    IF c = 34 THEN <<92, 34>>
    ELSE IF c = 92 THEN <<92, 92>>
    ELSE IF c >= 32 /\ c < 127 THEN <<c>>
    ELSE <<92, 117, HexDigit(c \div 4096), HexDigit((c \div 256) % 16),
           HexDigit((c \div 16) % 16), HexDigit(c % 16)>>

RECURSIVE JsonString(_)
JsonString(cps) ==
    IF cps = <<>> THEN <<>> ELSE JsonChar(Head(cps)) \o JsonString(Tail(cps))

\* "[1, 2]": the elements of a list of ints, joined by ", ".
RECURSIVE JsonItems(_)
JsonItems(v) ==
    IF v = <<>> THEN <<>>
    ELSE Digits(Head(v))
         \o (IF Len(v) > 1 THEN <<44, 32>> ELSE <<>>)
         \o JsonItems(Tail(v))

\* '"a": 1': the items of a dict of one-character keys and int values.
RECURSIVE JsonPairs(_)
JsonPairs(v) ==
    IF Len(v) < 2 THEN <<>>
    ELSE <<34>> \o JsonChar(v[1]) \o <<34, 58, 32>> \o Digits(v[2])
         \o (IF Len(v) > 2 THEN <<44, 32>> ELSE <<>>)
         \o JsonPairs(SubSeq(v, 3, Len(v)))

\* Whether json.dumps accepts the value (it raises TypeError on bytes).
JsonSerializable(d) == d.ty \in {"int", "str", "list", "dict"}

\* json.dumps(data): the text, as code points.
JsonDumps(d) ==
    CASE d.ty = "int" -> Digits(d.v[1])
      [] d.ty = "str" -> <<34>> \o JsonString(d.v) \o <<34>>
      [] d.ty = "list" -> <<91>> \o JsonItems(d.v) \o <<93>>
      [] d.ty = "dict" -> <<123>> \o JsonPairs(d.v) \o <<125>>
      [] OTHER -> <<>>

\* The JSON values json.loads is asked to produce in this model.
JsonValues ==
    {[ty |-> "int", v |-> <<n>>] : n \in {1, 12}}
    \cup {[ty |-> "str", v |-> s] : s \in {<<>>, <<97>>, <<233>>}}
    \cup {[ty |-> "list", v |-> l] : l \in {<<>>, <<1>>, <<1, 2>>}}
    \cup {[ty |-> "dict", v |-> m] : m \in {<<>>, <<97, 1>>, <<97, 2>>}}

\* json.loads(text): <<value>>, the value whose JSON text this is, or <<>>
\* where json raises JSONDecodeError.
JsonLoads(text) ==
    IF \E d \in JsonValues : JsonDumps(d) = text
    THEN << CHOOSE d \in JsonValues : JsonDumps(d) = text >>
    ELSE <<>>


\* ------------------------------------------------------------- serializers

Ok(v) == [err |-> "", val |-> <<v>>]
Raise(e) == [err |-> e, val |-> <<>>]

\* Serializer(ext), JSONSerializer(ext), TextSerializer(ext)
Serializer(ext) == [cls |-> "Serializer", ext |-> ext]
JSONSerializer(ext) == [cls |-> "JSONSerializer", ext |-> ext]
TextSerializer(ext) == [cls |-> "TextSerializer", ext |-> ext]

\* The media types of Output.media_type's OneOf validator.
MediaTypeChoices ==
    {"bokeh", "table", "CSV", "PNG", "JPEG", "MP3", "MP4", "HDF5", "PDF",
     "Markdown", "Text"}

\* The dictionary get_serializer indexes.
SerializerTable ==
    [bokeh |-> JSONSerializer(<<"j", "s", "o", "n">>),
     table |-> TextSerializer(<<"h", "t", "m", "l">>),
     CSV |-> TextSerializer(<<"c", "s", "v">>),
     PNG |-> Serializer(<<"p", "n", "g">>),
     JPEG |-> Serializer(<<"j", "p", "e", "g">>),
     MP3 |-> Serializer(<<"m", "p", "3">>),
     MP4 |-> Serializer(<<"m", "p", "4">>),
     HDF5 |-> Serializer(<<"h", "5">>),
     PDF |-> Serializer(<<"p", "d", "f">>),
     Markdown |-> TextSerializer(<<"m", "d">>),
     Text |-> TextSerializer(<<"t", "x", "t">>)]

\* get_serializer(media_type): KeyError on a media type outside the table.
get_serializer(media_type) ==
    IF media_type \in DOMAIN SerializerTable
    THEN Ok(SerializerTable[media_type])
    ELSE Raise("KeyError")

\* serializer.serialize(data)
serialize(serializer, data) ==
    CASE serializer.cls = "JSONSerializer" ->
            IF JsonSerializable(data)
            THEN Ok(Bytes(Utf8Encode(JsonDumps(data))))
            ELSE Raise("TypeError")
      [] serializer.cls = "TextSerializer" ->
            IF data.ty = "str" THEN Ok(Bytes(Utf8Encode(data.v)))
            ELSE Raise("AttributeError")
      [] OTHER -> Ok(data)

\* serializer.deserialize(data), data the bytes of an archive member.
deserialize(serializer, data) ==
    CASE serializer.cls = "JSONSerializer" ->
            LET text == Utf8Decode(data.v)
            IN  IF text = <<>> THEN Raise("UnicodeDecodeError")
                ELSE LET value == JsonLoads(text[1])
                     IN  IF value = <<>> THEN Raise("JSONDecodeError")
                         ELSE Ok(value[1])
      [] serializer.cls = "TextSerializer" ->
            LET text == Utf8Decode(data.v)
            IN  IF text = <<>> THEN Raise("UnicodeDecodeError")
                ELSE Ok(Str(text[1]))
      [] OTHER -> Ok(data)

\* ------------------------------------------------------------ zip archives

\* zipfile.ZipFile(buff, mode="w"): no member yet.
EmptyZip == <<>>

\* ZipFile.writestr(filename, ser): a str is encoded as UTF-8, bytes are
\* written as they are; a member of the same name is not replaced, the new
\* one is added after it.
writestr(zip, filename, ser) ==
    CASE ser.ty = "bytes" -> Ok(Append(zip, [name |-> filename, data |-> ser.v]))
      [] ser.ty = "str" ->
            Ok(Append(zip, [name |-> filename, data |-> Utf8Encode(ser.v)]))
      [] OTHER -> Raise("TypeError")

\* ZipFile.read(filename): the name index of an archive keeps the last
\* member of each name; KeyError when no member has the name.
ZipRead(zip, filename) ==
    LET at == {i \in 1..Len(zip) : zip[i].name = filename}
    IN  IF at = {} THEN Raise("KeyError")
        ELSE Ok(Bytes(zip[CHOOSE i \in at : \A j \in at : j <= i].data))

\* ---------------------------------------------------------------- schemas

Categories == <<"renderable", "downloadable">>

CategorySet == {Categories[i] : i \in 1..Len(Categories)}

\* Output.media_type: validate.OneOf(choices)
ValidOutput(output) == output.media_type \in MediaTypeChoices

\* A load that reports its errors without raising them.
LoadsWithoutRaising(loc_result) == TRUE

\* LocalResult().load(loc_result): neither category is required; every
\* output given must be valid.
LocalResultLoads(loc_result) ==
    /\ DOMAIN loc_result \subseteq CategorySet
    /\ \A c \in DOMAIN loc_result :
          \A i \in 1..Len(loc_result[c]) : ValidOutput(loc_result[c][i])

\* RemoteResult().load(rem_result)
RemoteResultLoads(rem_result) ==
    /\ DOMAIN rem_result \subseteq CategorySet
    /\ \A c \in DOMAIN rem_result :
          \A i \in 1..Len(rem_result[c].outputs) :
              ValidOutput(rem_result[c].outputs[i])

\* ------------------------------------------------- write_to_s3like, parts

\* f"{task_id}_{category}.zip"
ZipLocation(task_id, category) == task_id \o "_" \o category \o ".zip"

\* The rule with the test of the suffix left out.
FilenameAlwaysAppends(title, ext) == title \o <<".">> \o ext

\* filename = output["title"], with "." and the extension added unless the
\* title ends with them.
Filename(title, ext) ==
    IF ~EndsWith(title, <<".">> \o ext) THEN title \o <<".">> \o ext
    ELSE title

\* One turn of the loop over a category's outputs. acc holds the archive,
\* the manifest entries so far and the exception raised, if any.
WriteOutput(acc, output) ==
    LET got == get_serializer(output.media_type)
    IN  IF got.err # "" THEN [acc EXCEPT !.err = got.err]
        ELSE
        LET serializer == got.val[1]
            ser == serialize(serializer, output.data)
        IN  IF ser.err # "" THEN [acc EXCEPT !.err = ser.err]
            ELSE
            LET filename == Filename(output.title, serializer.ext)
                written == writestr(acc.zip, filename, ser.val[1])
            IN  IF written.err # "" THEN [acc EXCEPT !.err = written.err]
                ELSE [acc EXCEPT
                        !.zip = written.val[1],
                        !.outputs = Append(@,
                            [title |-> output.title,
                             media_type |-> output.media_type,
                             filename |-> filename])]

\* The loop over a category's outputs, stopping at the first exception.
RECURSIVE WriteOutputs(_, _)
WriteOutputs(acc, outputs) ==
    IF outputs = <<>> \/ acc.err # "" THEN acc
    ELSE WriteOutputs(WriteOutput(acc, Head(outputs)), Tail(outputs))

\* ------------------------------------------------ read_from_s3like, parts

\* One turn of the loop over a category's manifest entries. acc holds the
\* outputs read so far and the exception raised, if any.
ReadOutput(acc, zip, rem_output) ==
    LET got == get_serializer(rem_output.media_type)
    IN  IF got.err # "" THEN [acc EXCEPT !.err = got.err]
        ELSE
        LET member == ZipRead(zip, rem_output.filename)
        IN  IF member.err # "" THEN [acc EXCEPT !.err = member.err]
            ELSE
            LET rem_data == deserialize(got.val[1], member.val[1])
            IN  IF rem_data.err # "" THEN [acc EXCEPT !.err = rem_data.err]
                ELSE [acc EXCEPT
                        !.outputs = Append(@,
                            [title |-> rem_output.title,
                             media_type |-> rem_output.media_type,
                             data |-> rem_data.val[1]])]

RECURSIVE ReadOutputs(_, _, _)
ReadOutputs(acc, zip, rem_outputs) ==
    IF rem_outputs = <<>> \/ acc.err # "" THEN acc
    ELSE ReadOutputs(ReadOutput(acc, zip, Head(rem_outputs)), zip,
                     Tail(rem_outputs))

\* ------------------------------------------------------------------ inputs

O_plot ==
    [title |-> <<"p", "l", "o", "t">>, media_type |-> "bokeh",
     data |-> [ty |-> "dict", v |-> <<97, 1>>]]
O_csv ==
    [title |-> <<"a">>, media_type |-> "CSV", data |-> Str(<<120, 44, 121>>)]
O_csvext ==
    [title |-> <<"a", ".", "c", "s", "v">>, media_type |-> "CSV",
     data |-> Str(<<233>>)]
O_upper ==
    [title |-> <<"a", ".", "C", "S", "V">>, media_type |-> "CSV",
     data |-> Str(<<>>)]
O_png ==
    [title |-> <<"i", "m", "g">>, media_type |-> "PNG",
     data |-> Bytes(<<137, 80, 255>>)]
O_gif ==
    [title |-> <<"g">>, media_type |-> "GIF", data |-> Bytes(<<71>>)]

\* The loc_result arguments the callers pass: the spec's end-to-end example,
\* several media types in one category, two outputs of one filename, a
\* result with one category only, and an output of an unknown media type.
\* The data of an output is of the type its media type's serializer takes
\* (line 93: "Data could be a string or dict. It depends on the media type").
LocalResults ==
    {[renderable |-> <<O_plot>>, downloadable |-> <<>>],
     [renderable |-> <<O_plot>>, downloadable |-> <<O_png, O_csvext, O_upper>>],
     [renderable |-> <<>>, downloadable |-> <<O_csv, O_csvext>>],
     [renderable |-> <<O_csv>>],
     [downloadable |-> <<O_png>>],
     [renderable |-> <<O_csv>>, downloadable |-> <<O_gif>>]}

\* A key no call writes.
MissingKey == "missing.zip"

\* rem_result with the archive of category c moved to a key that holds no
\* blob.
Relocated(rem_result, c) ==
    [rem_result EXCEPT ![c].ziplocation = MissingKey]

\* rem_result with the last entry of category c naming another member.
Renamed(rem_result, c) ==
    LET n == Len(rem_result[c].outputs)
    IN  [rem_result EXCEPT ![c].outputs[n].filename = <<"n", "o">>]

\* Manifests a caller makes up for task t: one category only; an entry of
\* an unknown media type.
MadeUp(t) ==
    {[renderable |->
        [ziplocation |-> ZipLocation(t, "renderable"),
         outputs |-> <<[title |-> <<"a">>, media_type |-> "CSV",
                        filename |-> <<"a", ".", "c", "s", "v">>]>>]],
     [renderable |->
        [ziplocation |-> ZipLocation(t, "renderable"),
         outputs |-> <<[title |-> <<"g">>, media_type |-> "GIF",
                        filename |-> <<"g", ".", "g", "i", "f">>]>>],
      downloadable |->
        [ziplocation |-> ZipLocation(t, "downloadable"), outputs |-> <<>>]]}

\* ------------------------------------------------------------------- state

VARIABLES
    GCSFS,      \* whether fs_gcsfs was imported (GCSFS is not None)
    store,      \* the bucket: key -> archive
    calls,      \* per task id, the call running or last run on it
    last,       \* per task id, <<the write that returned last>>, or <<>>
                \* once another write on it has begun
    started     \* the number of calls begun

vars == <<GCSFS, store, calls, last, started>>

NoCall ==
    [kind |-> "none", pc |-> "idle", loc_result |-> <<>>, do_upload |-> FALSE,
     rem_result |-> <<>>, todo |-> <<>>, read |-> <<>>,
     ret |-> <<>>, err |-> "",
     built |-> 0, keys |-> {}, fetched |-> {}]

\* A blob of another application, in the bucket before any call.
OtherBlob == <<[name |-> <<"o">>, data |-> <<1>>]>>

Init ==
    /\ GCSFS \in BOOLEAN
    /\ store = ("other.zip" :> OtherBlob)
    /\ calls = [t \in TaskIds |-> NoCall]
    /\ last = [t \in TaskIds |-> <<>>]
    /\ started = 0

\* gcsfs.open(key, "wb").write(bytes)
Put(key, blob) ==
    [k \in DOMAIN store \cup {key} |-> IF k = key THEN blob ELSE store[k]]

Idle(t) == calls[t].pc \in {"idle", "done"}

\* The upload made whatever do_upload says.
UploadsAlways(call) == TRUE

\* if do_upload:
Uploads(call) == call.do_upload

\* An exception leaves write_to_s3like: nothing is returned.
WriteAbort(call, e) ==
    [call EXCEPT !.pc = "done", !.err = e, !.ret = <<>>, !.rem_result = <<>>,
                 !.todo = <<>>]

\* The exception is swallowed and what was read so far is returned.
ReadAbortReturnsPartial(call, e) ==
    [call EXCEPT !.pc = "done", !.err = e, !.ret = <<call.read>>,
                 !.read = <<>>, !.todo = <<>>]

\* An exception leaves read_from_s3like: nothing is returned.
ReadAbort(call, e) ==
    [call EXCEPT !.pc = "done", !.err = e, !.ret = <<>>, !.read = <<>>,
                 !.todo = <<>>]

\* ------------------------------------------------------- write_to_s3like

\* Lines 104-111: the client, the validation, rem_result = {}.
WriteBegin(t, loc_result, do_upload) ==
    /\ Idle(t)
    /\ started < MaxCalls
    /\ started' = started + 1
    /\ last' = [last EXCEPT ![t] = <<>>]
    /\ LET call == [NoCall EXCEPT !.kind = "write",
                                  !.loc_result = loc_result,
                                  !.do_upload = do_upload]
       IN  calls' = [calls EXCEPT ![t] =
                IF ~LocalResultLoads(loc_result)
                THEN WriteAbort(call, "ValidationError")
                ELSE [call EXCEPT !.pc = "loop", !.todo = Categories]]
    /\ UNCHANGED <<GCSFS, store>>

\* Lines 112-138: one turn of the loop over the categories: the archive is
\* built, then uploaded; after the last category rem_result is returned.
WriteCategory(t) ==
    LET call == calls[t]
        category == Head(call.todo)
        ziplocation == ZipLocation(t, category)
        begun == [call EXCEPT
                    !.built = @ + 1,
                    !.keys = @ \cup {ziplocation},
                    !.rem_result = (category :>
                        [ziplocation |-> ziplocation, outputs |-> <<>>]) @@ @]
    IN
    /\ call.kind = "write"
    /\ call.pc = "loop"
    /\ IF category \notin DOMAIN call.loc_result
       THEN /\ calls' = [calls EXCEPT ![t] = WriteAbort(begun, "KeyError")]
            /\ UNCHANGED <<store, last>>
       ELSE
       LET acc == WriteOutputs([zip |-> EmptyZip, outputs |-> <<>>, err |-> ""],
                               call.loc_result[category])
           rem_result == [begun.rem_result EXCEPT
                            ![category].outputs = acc.outputs]
           rest == Tail(call.todo)
       IN  IF acc.err # ""
           THEN /\ calls' = [calls EXCEPT ![t] = WriteAbort(begun, acc.err)]
                /\ UNCHANGED <<store, last>>
           ELSE IF Uploads(call) /\ ~GCSFS
           THEN /\ calls' = [calls EXCEPT ![t] =
                                WriteAbort(begun, "AttributeError")]
                /\ UNCHANGED <<store, last>>
           ELSE /\ store' = IF Uploads(call) THEN Put(ziplocation, acc.zip)
                            ELSE store
                /\ IF rest # <<>>
                   THEN /\ calls' = [calls EXCEPT ![t] =
                                [begun EXCEPT !.rem_result = rem_result,
                                              !.todo = rest]]
                        /\ UNCHANGED last
                   ELSE /\ calls' = [calls EXCEPT ![t] =
                                [begun EXCEPT !.pc = "done",
                                              !.rem_result = <<>>,
                                              !.todo = <<>>,
                                              !.ret = <<rem_result>>]]
                        /\ last' = [last EXCEPT ![t] =
                                <<[loc_result |-> call.loc_result,
                                   rem_result |-> rem_result,
                                   do_upload |-> call.do_upload]>>]
    /\ UNCHANGED <<GCSFS, started>>

\* ------------------------------------------------------ read_from_s3like

\* The categories of rem_result, in the order of the dictionary.
Keys(rem_result) ==
    SelectSeq(Categories, LAMBDA c : c \in DOMAIN rem_result)

\* The manifests the caller of task t may pass: the one the last write
\* returned, as it is or changed, or one made up.
ReadInputs(t) ==
    MadeUp(t) \cup
    (IF last[t] = <<>> THEN {}
     ELSE LET m == last[t][1].rem_result
          IN  {m} \cup {Relocated(m, c) : c \in DOMAIN m}
                  \cup {Renamed(m, c) :
                          c \in {d \in DOMAIN m : m[d].outputs # <<>>}})

\* Lines 141-145: the client, the validation, the empty result.
ReadBegin(t, rem_result) ==
    /\ Idle(t)
    /\ started < MaxCalls
    /\ started' = started + 1
    /\ LET call == [NoCall EXCEPT !.kind = "read", !.rem_result = rem_result]
           read == [renderable |-> <<>>, downloadable |-> <<>>]
       IN  calls' = [calls EXCEPT ![t] =
                IF ~GCSFS THEN ReadAbort(call, "TypeError")
                ELSE IF ~RemoteResultLoads(rem_result)
                THEN ReadAbort(call, "ValidationError")
                ELSE IF Keys(rem_result) = <<>>
                THEN [call EXCEPT !.pc = "done", !.ret = <<read>>]
                ELSE [call EXCEPT !.pc = "loop", !.todo = Keys(rem_result),
                                  !.read = read]]
    /\ UNCHANGED <<GCSFS, store, last>>

\* Lines 146-165: one turn of the loop over the categories: the archive is
\* fetched and its members are read; after the last category read is
\* returned.
ReadCategory(t) ==
    LET call == calls[t]
        category == Head(call.todo)
        ziplocation == call.rem_result[category].ziplocation
        opened == [call EXCEPT !.fetched = @ \cup {ziplocation}]
    IN
    /\ call.kind = "read"
    /\ call.pc = "loop"
    /\ calls' = [calls EXCEPT ![t] =
          IF ziplocation \notin DOMAIN store
          THEN ReadAbort(opened, "ResourceNotFound")
          ELSE
          LET acc == ReadOutputs([outputs |-> call.read[category], err |-> ""],
                                 store[ziplocation],
                                 call.rem_result[category].outputs)
              read == [call.read EXCEPT ![category] = acc.outputs]
              rest == Tail(call.todo)
          IN  IF acc.err # "" THEN ReadAbort(opened, acc.err)
              ELSE IF rest # <<>>
              THEN [opened EXCEPT !.read = read, !.todo = rest]
              ELSE [opened EXCEPT !.pc = "done", !.read = <<>>, !.todo = <<>>,
                                  !.ret = <<read>>]]
    /\ UNCHANGED <<GCSFS, store, last, started>>

\* ----------------------------------------------------------- specification

Next ==
    \E t \in TaskIds :
        \/ \E loc_result \in LocalResults, do_upload \in BOOLEAN :
              WriteBegin(t, loc_result, do_upload)
        \/ WriteCategory(t)
        \/ \E rem_result \in ReadInputs(t) : ReadBegin(t, rem_result)
        \/ ReadCategory(t)

Spec == Init /\ [][Next]_vars

\* ------------------------------------------- what the claims are stated in

\* The closed enumeration of media types and the canonical extension of
\* each, as the specification lists them.
ClosedEnumeration ==
    {"bokeh", "table", "CSV", "PNG", "JPEG", "MP3", "MP4", "HDF5", "PDF",
     "Markdown", "Text"}

CanonicalExt(media_type) ==
    CASE media_type = "bokeh" -> <<"j", "s", "o", "n">>
      [] media_type = "table" -> <<"h", "t", "m", "l">>
      [] media_type = "CSV" -> <<"c", "s", "v">>
      [] media_type = "PNG" -> <<"p", "n", "g">>
      [] media_type = "JPEG" -> <<"j", "p", "e", "g">>
      [] media_type = "MP3" -> <<"m", "p", "3">>
      [] media_type = "MP4" -> <<"m", "p", "4">>
      [] media_type = "HDF5" -> <<"h", "5">>
      [] media_type = "PDF" -> <<"p", "d", "f">>
      [] media_type = "Markdown" -> <<"m", "d">>
      [] media_type = "Text" -> <<"t", "x", "t">>

\* s is some prefix followed by "." and ext, character for character.
HasDotSuffix(s, ext) ==
    \E n \in 0..Len(s) : s = SubSeq(s, 1, n) \o <<".">> \o ext

\* The filename the rule gives an output.
RuleName(title, media_type) ==
    IF HasDotSuffix(title, CanonicalExt(media_type)) THEN title
    ELSE title \o <<".">> \o CanonicalExt(media_type)

\* Shape validation fails: some output has a media type outside the
\* enumeration.
UnknownMediaTypeIn(loc_result) ==
    \E c \in DOMAIN loc_result : \E i \in 1..Len(loc_result[c]) :
        loc_result[c][i].media_type \notin ClosedEnumeration

UnknownMediaTypeInManifest(rem_result) ==
    \E c \in DOMAIN rem_result : \E i \in 1..Len(rem_result[c].outputs) :
        rem_result[c].outputs[i].media_type \notin ClosedEnumeration

BothCategories(loc_result) == DOMAIN loc_result = {"renderable", "downloadable"}

\* The manifest the specification describes for task_id and loc_result.
ExpectedManifest(task_id, loc_result) ==
    [c \in DOMAIN loc_result |->
        [ziplocation |-> task_id \o "_" \o c \o ".zip",
         outputs |-> [i \in 1..Len(loc_result[c]) |->
            [title |-> loc_result[c][i].title,
             media_type |-> loc_result[c][i].media_type,
             filename |-> RuleName(loc_result[c][i].title,
                                   loc_result[c][i].media_type)]]]]

\* The manifest a write call holds: the one it returned, or the one it has
\* built so far.
ManifestOf(call) == IF call.ret # <<>> THEN call.ret[1] ELSE call.rem_result

Returned(call) == call.pc = "done" /\ call.ret # <<>>

\* What reading the entries of category c of manifest m gives now.
ReadBack(m, c) ==
    IF m[c].ziplocation \notin DOMAIN store THEN [outputs |-> <<>>, err |-> "ResourceNotFound"]
    ELSE ReadOutputs([outputs |-> <<>>, err |-> ""], store[m[c].ziplocation],
                     m[c].outputs)

\* ------------------------------------------------------------------ claims

\* C6: every manifest filename equals the title when the title ends with
\* "." and the canonical extension of the media type, and the title followed
\* by "." and the extension otherwise; the archive member written for the
\* output has that name; the rule applied to the filename gives it back.
C6_FilenameRule ==
    \A t \in TaskIds :
        LET call == calls[t]
            m == ManifestOf(call)
        IN  call.kind = "write" =>
            \A c \in DOMAIN m :
                /\ Len(m[c].outputs) = Len(call.loc_result[c])
                /\ call.do_upload =>
                      /\ m[c].ziplocation \in DOMAIN store
                      /\ Len(store[m[c].ziplocation]) = Len(m[c].outputs)
                /\ \A i \in 1..Len(m[c].outputs) :
                      LET e == m[c].outputs[i]
                          o == call.loc_result[c][i]
                      IN  /\ e.filename = RuleName(o.title, o.media_type)
                          /\ RuleName(e.filename, o.media_type) = e.filename
                          /\ Filename(e.filename, CanonicalExt(o.media_type))
                                = e.filename
                          /\ call.do_upload =>
                                store[m[c].ziplocation][i].name = e.filename

\* C6 witness: an uploading write returned a manifest with one entry whose
\* title already carried the extension and one whose title did not.
C6_Witness ==
    \E t \in TaskIds :
        /\ calls[t].kind = "write" /\ Returned(calls[t]) /\ calls[t].do_upload
        /\ \E c \in DOMAIN calls[t].ret[1] :
              LET es == calls[t].ret[1][c].outputs
              IN  /\ \E i \in 1..Len(es) : es[i].filename = es[i].title
                  /\ \E i \in 1..Len(es) : es[i].filename # es[i].title

\* A step of the call on task t.
Steps(t) == calls'[t] # calls[t]

C4_NoSideEffects ==
    \A t \in TaskIds :
        LET call == calls[t]
        IN  /\ (call.kind = "write" /\ UnknownMediaTypeIn(call.loc_result)) =>
                  /\ call.pc = "done"
                  /\ call.err = "ValidationError"
                  /\ call.ret = <<>>
                  /\ call.built = 0
                  /\ call.keys = {}
            /\ (call.kind = "read"
                  /\ UnknownMediaTypeInManifest(call.rem_result)) =>
                  /\ call.pc = "done"
                  /\ call.err = IF GCSFS THEN "ValidationError" ELSE "TypeError"
                  /\ call.ret = <<>>
                  /\ call.fetched = {}

C4_StoreKept ==
    \A t \in TaskIds :
        (/\ Steps(t)
         /\ \/ /\ calls'[t].kind = "write"
               /\ UnknownMediaTypeIn(calls'[t].loc_result)
            \/ /\ calls'[t].kind = "read"
               /\ UnknownMediaTypeInManifest(calls'[t].rem_result))
        => store' = store

\* C4: a write whose loc_result has an output of a media type outside the
\* enumeration ends with a validation error, having built no archive and
\* allocated no archive key, and none of its steps changes the blob store;
\* a read whose manifest has such an entry ends with an error, returns
\* nothing and fetches nothing.
C4_ValidationFirst == []C4_NoSideEffects /\ [][C4_StoreKept]_vars

\* C4 witness: with archives of earlier calls in the bucket, a write was
\* refused by the validation on one task and a read on the other.
C4_Witness ==
    /\ DOMAIN store # {"other.zip"}
    /\ \E t, u \in TaskIds :
          /\ calls[t].kind = "write" /\ calls[t].err = "ValidationError"
          /\ calls[u].kind = "read" /\ calls[u].err = "ValidationError"

\* Category c of manifest m names a key that holds no blob.
BlobMissing(m, c) == m[c].ziplocation \notin DOMAIN store

\* Category c of manifest m has an entry whose member the blob lacks.
MemberMissing(m, c) ==
    /\ ~BlobMissing(m, c)
    /\ \E i \in 1..Len(m[c].outputs) :
          \A j \in 1..Len(store[m[c].ziplocation]) :
              store[m[c].ziplocation][j].name # m[c].outputs[i].filename

\* C5: a read of a valid manifest that names a key absent from the blob
\* store, or a member absent from its archive, ends with that error and
\* returns nothing, whatever it had read before.
C5_NothingPartial ==
    \A t \in TaskIds :
        LET call == calls[t]
            m == call.rem_result
        IN  (/\ GCSFS
             /\ call.kind = "read"
             /\ call.pc = "done"
             /\ ~UnknownMediaTypeInManifest(m)
             /\ \E c \in DOMAIN m : BlobMissing(m, c) \/ MemberMissing(m, c))
            => /\ call.ret = <<>>
               /\ call.err \in {"ResourceNotFound", "KeyError"}
               /\ (\A c \in DOMAIN m : ~MemberMissing(m, c))
                     => call.err = "ResourceNotFound"
               /\ (\A c \in DOMAIN m : ~BlobMissing(m, c))
                     => call.err = "KeyError"

\* C5 witness: a read fetched the archive of one category, read its
\* outputs, and then found no blob for the other category.
C5_Witness ==
    \E t \in TaskIds :
        /\ calls[t].kind = "read"
        /\ calls[t].err = "ResourceNotFound"
        /\ Cardinality(calls[t].fetched) = 2
        /\ \E c \in DOMAIN calls[t].rem_result :
              /\ ~BlobMissing(calls[t].rem_result, c)
              /\ calls[t].rem_result[c].outputs # <<>>

C7_SameManifest ==
    \A t \in TaskIds :
        LET call == calls[t]
        IN  (/\ call.kind = "write"
             /\ call.pc = "done"
             /\ ~UnknownMediaTypeIn(call.loc_result)
             /\ BothCategories(call.loc_result)
             /\ ~call.do_upload \/ GCSFS)
            => call.ret = <<ExpectedManifest(t, call.loc_result)>>

C7_StoreKept ==
    \A t \in TaskIds :
        (Steps(t) /\ calls'[t].kind = "write" /\ ~calls'[t].do_upload)
        => store' = store

\* C7: no step of a write with do_upload=False changes the blob store, and
\* the call returns the manifest of its task_id and loc_result, the one a
\* write with do_upload=True returns, with or without a blob store client.
C7_UploadDisabled == []C7_SameManifest /\ [][C7_StoreKept]_vars

\* C7 witness: a write with do_upload=False returned its manifest while the
\* key of one of its categories still holds an earlier call's archive.
C7_Witness ==
    \E t \in TaskIds :
        /\ calls[t].kind = "write" /\ Returned(calls[t]) /\ ~calls[t].do_upload
        /\ \E c \in DOMAIN calls[t].ret[1] :
              /\ ~BlobMissing(calls[t].ret[1], c)
              /\ Len(store[calls[t].ret[1][c].ziplocation])
                    # Len(calls[t].ret[1][c].outputs)

\* C1: a read of the manifest that write_to_s3like(task_id, loc_result,
\* do_upload=True) returned, loc_result holding both categories, returns
\* loc_result.
C1_RoundTrip ==
    \A t \in TaskIds :
        (/\ calls[t].kind = "read"
         /\ calls[t].pc = "done"
         /\ last[t] # <<>>
         /\ last[t][1].do_upload
         /\ BothCategories(last[t][1].loc_result)
         /\ calls[t].rem_result = last[t][1].rem_result)
        => calls[t].ret = <<last[t][1].loc_result>>

\* C2: the manifest a write returns has, per category, as many entries as
\* the category has outputs, the i-th with the title and media type of the
\* i-th output, and no two entries of a category with the same filename.
C2_ManifestComplete ==
    \A t \in TaskIds :
        (calls[t].kind = "write" /\ Returned(calls[t])) =>
        \A c \in DOMAIN calls[t].loc_result :
            LET os == calls[t].loc_result[c]
                es == calls[t].ret[1][c].outputs
            IN  /\ Len(es) = Len(os)
                /\ \A i \in 1..Len(es) :
                      /\ es[i].title = os[i].title
                      /\ es[i].media_type = os[i].media_type
                /\ \A i, j \in 1..Len(es) :
                      i # j => es[i].filename # es[j].filename

\* Two entries of one category of manifest m have the same filename.
Collides(m) ==
    \E c \in DOMAIN m : \E i, j \in 1..Len(m[c].outputs) :
        i # j /\ m[c].outputs[i].filename = m[c].outputs[j].filename

\* C3: when two outputs of a category got the same filename and the write
\* returned a manifest all the same (no DuplicateFilename), reading any
\* entry of the manifest gives the data of the output the entry was made
\* from.
C3_CollisionPolicy ==
    \A t \in TaskIds :
        (last[t] # <<>> /\ last[t][1].do_upload
           /\ Collides(last[t][1].rem_result)) =>
        LET m == last[t][1].rem_result
        IN  \A c \in DOMAIN m : \A i \in 1..Len(m[c].outputs) :
                LET got == ReadBack([m EXCEPT ![c].outputs = <<@[i]>>], c)
                IN  /\ got.err = ""
                    /\ got.outputs[1].data = last[t][1].loc_result[c][i].data

\* C8: with a blob store client, a write whose loc_result passes the
\* validation, be it with one category only, ends without an error and
\* returns a manifest of the categories given.
C8_CategoriesPresent ==
    \A t \in TaskIds :
        (/\ GCSFS
         /\ calls[t].kind = "write"
         /\ calls[t].pc = "done"
         /\ ~UnknownMediaTypeIn(calls[t].loc_result))
        => /\ calls[t].err = ""
           /\ calls[t].ret # <<>>
           /\ DOMAIN calls[t].ret[1] = DOMAIN calls[t].loc_result

\* C9: once the latest write on a task id has returned, upload enabled, the
\* keys of the task hold that write's archives, so that reading its manifest
\* gives its loc_result, and no other key of the bucket has been touched.
C9_OverwriteRetry ==
    /\ store["other.zip"] = OtherBlob
    /\ DOMAIN store \subseteq
          {"other.zip"} \cup {ZipLocation(t, c) : t \in TaskIds, c \in CategorySet}
    /\ \A t \in TaskIds :
          (last[t] # <<>> /\ last[t][1].do_upload) =>
          \A c \in DOMAIN last[t][1].rem_result :
              /\ Len(store[ZipLocation(t, c)]) = Len(last[t][1].loc_result[c])
              /\ ReadBack(last[t][1].rem_result, c)
                    = [outputs |-> last[t][1].loc_result[c], err |-> ""]

\* C10: of two uploading writes on distinct task ids, however their steps
\* interleave, each returns the manifest of its own task_id and loc_result,
\* allocates no key of the other, and a later read of its manifest gives its
\* own loc_result.
C10_Independent ==
    \A t, u \in TaskIds :
        (/\ t # u
         /\ calls[t].kind = "write" /\ Returned(calls[t]) /\ calls[t].do_upload
         /\ calls[u].kind = "write" /\ Returned(calls[u]) /\ calls[u].do_upload)
        => /\ calls[t].ret = <<ExpectedManifest(t, calls[t].loc_result)>>
           /\ calls[t].keys \cap calls[u].keys = {}
           /\ \A c \in DOMAIN calls[t].ret[1] :
                 ReadBack(calls[t].ret[1], c)
                    = [outputs |-> calls[t].loc_result[c], err |-> ""]

=============================================================================
